---- MODULE Spec2Model ----
(***************************************************************************)
(* Model of analyze.py: the rule-based classifier of Windows security-log  *)
(* events, analyze_suspicious_windows_events, run over the DataFrame that  *)
(* load_and_prepare_data builds from a batch of JSON records.              *)
(*                                                                         *)
(* Python values are tagged records ([t |-> "int", v |-> 4625], ...).  A   *)
(* Python str read from the input is the sequence of its characters, so    *)
(* that int(), lower() and the substring test work on what the string      *)
(* holds; text the code produces (names, reasons) is a TLA+ string built   *)
(* by concatenation.                                                       *)
(***************************************************************************)
EXTENDS Integers, Sequences, FiniteSets, TLC

VARIABLES batch, df, idx, pc, event_id, suspicious_score, reasons,
          suspicious_events, calls, first_events

vars == <<batch, df, idx, pc, event_id, suspicious_score, reasons,
          suspicious_events, calls, first_events>>

\* Longest batch of records the model loads.
MaxBatch == 2

-----------------------------------------------------------------------------
(* Python values *)

PInt(n) == [t |-> "int", v |-> n]
PStr(s) == [t |-> "str", v |-> s]
PFloat(n) == [t |-> "float", tenths |-> n]
PList(n) == [t |-> "list", len |-> n]
None == [t |-> "none"]
NaN == [t |-> "nan"]

\* bool(value), as "if not event_id" evaluates it
Truthy(val) ==
    CASE val.t = "int" -> val.v # 0
      [] val.t = "str" -> Len(val.v) > 0
      [] val.t = "float" -> val.tenths # 0
      [] val.t = "list" -> val.len > 0
      [] val.t = "nan" -> TRUE
      [] val.t = "none" -> FALSE

Digit == {"0", "1", "2", "3", "4", "5", "6", "7", "8", "9"}

DigitVal(c) ==
    CASE c = "0" -> 0 [] c = "1" -> 1 [] c = "2" -> 2 [] c = "3" -> 3
      [] c = "4" -> 4 [] c = "5" -> 5 [] c = "6" -> 6 [] c = "7" -> 7
      [] c = "8" -> 8 [] c = "9" -> 9

DigitChar(d) ==
    CASE d = 0 -> "0" [] d = 1 -> "1" [] d = 2 -> "2" [] d = 3 -> "3"
      [] d = 4 -> "4" [] d = 5 -> "5" [] d = 6 -> "6" [] d = 7 -> "7"
      [] d = 8 -> "8" [] d = 9 -> "9"

\* str.strip() of the blanks int() ignores at both ends
RECURSIVE Strip(_)
Strip(s) ==
    IF s = <<>> THEN s
    ELSE IF Head(s) = " " THEN Strip(Tail(s))
    ELSE IF s[Len(s)] = " " THEN Strip(SubSeq(s, 1, Len(s) - 1))
    ELSE s

\* value of a run of decimal digits, most significant first
RECURSIVE DigitsVal(_, _)
DigitsVal(s, acc) ==
    IF s = <<>> THEN acc ELSE DigitsVal(Tail(s), 10 * acc + DigitVal(Head(s)))

\* int(str): blanks stripped, an optional sign, then decimal digits
ParseInt(s) ==
    LET body == Strip(s)
        signed == body # <<>> /\ Head(body) \in {"+", "-"}
        digits == IF signed THEN Tail(body) ELSE body
    IN  IF digits # <<>> /\ \A i \in 1..Len(digits) : digits[i] \in Digit
        THEN [ok |-> TRUE,
              v |-> IF signed /\ Head(body) = "-"
                    THEN 0 - DigitsVal(digits, 0) ELSE DigitsVal(digits, 0)]
        ELSE [ok |-> FALSE, exc |-> "ValueError"]

\* int(value): the converted integer, or the exception int() raises
ToInt(val) ==
    CASE val.t = "int" -> [ok |-> TRUE, v |-> val.v]
      [] val.t = "str" -> ParseInt(val.v)
      [] val.t = "float" ->
           [ok |-> TRUE,
            v |-> IF val.tenths >= 0 THEN val.tenths \div 10
                  ELSE 0 - ((0 - val.tenths) \div 10)]
      [] val.t = "nan" -> [ok |-> FALSE, exc |-> "ValueError"]
      [] val.t = "list" -> [ok |-> FALSE, exc |-> "TypeError"]
      [] val.t = "none" -> [ok |-> FALSE, exc |-> "TypeError"]

\* str(int), as an f-string formats {event_id}
RECURSIVE NatText(_)
NatText(n) ==
    IF n < 10 THEN DigitChar(n) ELSE NatText(n \div 10) \o DigitChar(n % 10)

IntText(n) == IF n < 0 THEN "-" \o NatText(0 - n) ELSE NatText(n)

\* the text of a str, as an f-string formats {process_name}
RECURSIVE Text(_)
Text(s) == IF s = <<>> THEN "" ELSE Head(s) \o Text(Tail(s))

LowerChar(c) ==
    CASE c = "A" -> "a" [] c = "B" -> "b" [] c = "C" -> "c" [] c = "D" -> "d"
      [] c = "E" -> "e" [] c = "F" -> "f" [] c = "G" -> "g" [] c = "H" -> "h"
      [] c = "I" -> "i" [] c = "J" -> "j" [] c = "K" -> "k" [] c = "L" -> "l"
      [] c = "M" -> "m" [] c = "N" -> "n" [] c = "O" -> "o" [] c = "P" -> "p"
      [] c = "Q" -> "q" [] c = "R" -> "r" [] c = "S" -> "s" [] c = "T" -> "t"
      [] c = "U" -> "u" [] c = "V" -> "v" [] c = "W" -> "w" [] c = "X" -> "x"
      [] c = "Y" -> "y" [] c = "Z" -> "z"
      [] OTHER -> c

\* str.lower()
Lower(s) == [i \in 1..Len(s) |-> LowerChar(s[i])]

\* needle in hay, for two strs
Contains(needle, hay) ==
    \E i \in 1..(Len(hay) - Len(needle) + 1) :
        SubSeq(hay, i, i + Len(needle) - 1) = needle

-----------------------------------------------------------------------------
(* The rule tables *)

event_descriptions ==
    (4624 :> "Successful Logon") @@ (4625 :> "Failed Logon") @@
    (4648 :> "Logon with Explicit Credentials") @@
    (4672 :> "Special Privileges Assigned") @@
    (4688 :> "Process Creation") @@ (4689 :> "Process Exit") @@
    (4703 :> "User Right Adjusted") @@
    (4732 :> "Member Added to Security Group") @@
    (4733 :> "Member Removed from Security Group") @@
    (4656 :> "Object Handle Requested") @@
    (4663 :> "Object Access Attempt") @@
    (4608 :> "Windows Startup") @@ (4609 :> "Windows Shutdown") @@
    (4616 :> "System Time Change") @@
    (4740 :> "Account Locked Out") @@
    (4768 :> "Kerberos Ticket Requested") @@
    (4769 :> "Kerberos Ticket Granted") @@
    (4776 :> "Credential Validation") @@
    (5140 :> "Network Share Object Accessed") @@
    (5156 :> "Connection Allowed") @@ (5157 :> "Connection Denied") @@
    (7036 :> "Service Started/Stopped") @@
    (1102 :> "Security Log Cleared") @@
    (4720 :> "User Account Created") @@
    (4726 :> "User Account Deleted") @@
    (4728 :> "Member Added to Global Group") @@
    (4735 :> "Security Group Changed") @@
    (4798 :> "User Group Membership Enumerated")

\* event_descriptions.get(id, default)
Describe(id, default) ==
    IF id \in DOMAIN event_descriptions THEN event_descriptions[id] ELSE default

\* the High list with the process-creation id also in it
HighRiskWithProcessCreation == {4625, 4648, 4720, 4726, 1102, 4740, 4672, 4688}

HighRisk == {4625, 4648, 4720, 4726, 1102, 4740, 4672}

MediumRisk == {4688, 4703, 4656, 4768, 4769, 4732, 4735}

LowRisk == {4624, 4689, 5140, 5156, 7036}

suspicious_processes ==
    << <<"p", "o", "w", "e", "r", "s", "h", "e", "l", "l">>,
       <<"c", "m", "d">>,
       <<"w", "s", "c", "r", "i", "p", "t">>,
       <<"c", "s", "c", "r", "i", "p", "t">>,
       <<"m", "s", "h", "t", "a">>,
       <<"r", "u", "n", "d", "l", "l", "3", "2">> >>

-----------------------------------------------------------------------------
(* The DataFrame *)

\* the columns of pd.DataFrame(records): every field some record carries
Columns(records) == UNION {DOMAIN records[i] : i \in 1..Len(records)}

\* pd.DataFrame(records): one row per record, NaN where a record lacks a column
DataFrame(records) ==
    [i \in 1..Len(records) |->
        [c \in Columns(records) |->
            IF c \in DOMAIN records[i] THEN records[i][c] ELSE NaN]]

\* row.get(key, default): the default only when the frame has no such column
RowGet(row, key, default) == IF key \in DOMAIN row THEN row[key] ELSE default

Unknown == PStr(<<"U", "n", "k", "n", "o", "w", "n">>)

-----------------------------------------------------------------------------
(* The steps of the loop body *)

\* "except ValueError:" in place of the bare "except:"
CaughtValueError(exc) == exc = "ValueError"

\* the bare "except:" around int(event_id) catches whatever int() raises
Caught(exc) == TRUE

\* the if / elif / elif chain over the three tier lists
TierOf(id) ==
    IF id \in HighRisk THEN "High"
    ELSE IF id \in MediumRisk THEN "Medium"
    ELSE IF id \in LowRisk THEN "Low"
    ELSE "None"

\* the High increment pasted into the Medium branch
TierScoreMediumAsHigh(id) ==
    CASE TierOf(id) = "High" -> 3
      [] TierOf(id) = "Medium" -> 3
      [] TierOf(id) = "Low" -> 1
      [] OTHER -> 0

TierScore(id) ==
    CASE TierOf(id) = "High" -> 3
      [] TierOf(id) = "Medium" -> 2
      [] TierOf(id) = "Low" -> 1
      [] OTHER -> 0

TierReasons(id) ==
    LET name == Describe(id, "Unknown (" \o IntText(id) \o ")")
    IN  CASE TierOf(id) = "High" -> <<"High-risk event: " \o name>>
          [] TierOf(id) = "Medium" -> <<"Medium-risk event: " \o name>>
          [] TierOf(id) = "Low" -> <<"Info event: " \o name>>
          [] OTHER -> <<>>

\* the process-name test without .lower()
SuspiciousProcessCaseSensitive(row) ==
    LET process_name == RowGet(row, "New_Process_Name", PStr(<<>>))
    IN  /\ process_name.t = "str"
        /\ \E k \in 1..Len(suspicious_processes) :
               Contains(suspicious_processes[k], process_name.v)

\* the process-name test of a 4688 row
SuspiciousProcess(row) ==
    LET process_name == RowGet(row, "New_Process_Name", PStr(<<>>))
    IN  /\ process_name.t = "str"
        /\ \E k \in 1..Len(suspicious_processes) :
               Contains(suspicious_processes[k], Lower(process_name.v))

\* the logon-type test with the network type only
RemoteLogonNetworkOnly(row) ==
    RowGet(row, "Logon_Type", None) \in {PStr(<<"3">>)}

\* the logon-type test of a 4624 row
RemoteLogon(row) ==
    RowGet(row, "Logon_Type", None) \in {PStr(<<"3">>), PStr(<<"1", "0">>)}

\* the two heuristics with the event-id guard of the process test dropped
HeuristicsAnyEvent(row, id) ==
    IF SuspiciousProcess(row)
    THEN [score |-> 2,
          reasons |-> <<"Suspicious process: " \o Text(row["New_Process_Name"].v)>>]
    ELSE IF id = 4624 /\ RemoteLogon(row)
    THEN [score |-> 1,
          reasons |-> <<"Remote logon (Type " \o Text(row["Logon_Type"].v) \o ")">>]
    ELSE [score |-> 0, reasons |-> <<>>]

\* the if / elif over the two field heuristics: what they add to the score
\* and to the reasons
Heuristics(row, id) ==
    IF id = 4688
    THEN (IF SuspiciousProcess(row)
          THEN [score |-> 2,
                reasons |-> <<"Suspicious process: "
                                \o Text(row["New_Process_Name"].v)>>]
          ELSE [score |-> 0, reasons |-> <<>>])
    ELSE IF id = 4624
    THEN (IF RemoteLogon(row)
          THEN [score |-> 1,
                reasons |-> <<"Remote logon (Type "
                                \o Text(row["Logon_Type"].v) \o ")">>]
          ELSE [score |-> 0, reasons |-> <<>>])
    ELSE [score |-> 0, reasons |-> <<>>]

\* '; '.join(reasons)
RECURSIVE Join(_)
Join(rs) ==
    IF rs = <<>> THEN ""
    ELSE IF Len(rs) = 1 THEN rs[1]
    ELSE rs[1] \o "; " \o Join(Tail(rs))

\* the retention test with > in place of >=
RawDataAboveThree(row, score) == IF score > 3 THEN row ELSE None

\* row.to_dict() if suspicious_score >= 3 else None
RawData(row, score) == IF score >= 3 THEN row ELSE None

\* row.get('user', row.get('Account_Name', 'Unknown'))
UserOf(row) == RowGet(row, "user", RowGet(row, "Account_Name", Unknown))

\* the dict appended to suspicious_events
Result(row, id, score, rs) ==
    [timestamp |-> RowGet(row, "_time", None),
     event_id |-> id,
     event_name |-> Describe(id, "Event " \o IntText(id)),
     computer |-> RowGet(row, "ComputerName", Unknown),
     user |-> UserOf(row),
     suspicious_score |-> score,
     reasons |-> IF rs # <<>> THEN Join(rs) ELSE "Generic suspicious",
     raw_data |-> RawData(row, score)]

-----------------------------------------------------------------------------
(* The records the model loads *)

T0 == [t |-> "time", v |-> "2016-08-24T12:00:00"]

CmdPath ==
    PStr(<<"C", ":", "\\", "W", "i", "n", "d", "o", "w", "s", "\\",
           "S", "y", "s", "t", "e", "m", "3", "2", "\\",
           "c", "m", "d", ".", "e", "x", "e">>)

PowerShellEnc ==
    PStr(<<"P", "o", "w", "e", "r", "S", "h", "e", "l", "l", ".", "E", "X", "E",
           " ", "-", "e", "n", "c">>)

Notepad == PStr(<<"n", "o", "t", "e", "p", "a", "d", ".", "e", "x", "e">>)

Admin == PStr(<<"a", "d", "m", "i", "n">>)

Bob == PStr(<<"b", "o", "b">>)

WinDc01 == PStr(<<"W", "I", "N", "-", "D", "C", "0", "1">>)

\* values of the EventCode field
EventCodes ==
    {PInt(i) : i \in HighRisk \cup MediumRisk \cup LowRisk \cup {4608, 4798, 9999, 0}}
    \cup {PStr(<<"4", "6", "2", "5">>), PStr(<<" ", "4", "6", "8", "8", " ">>),
          PStr(<<"a", "b", "c">>), PStr(<<>>), PFloat(46240), None, PList(2)}

CodeRecords ==
    {[_time |-> T0, EventCode |-> e] : e \in EventCodes} \cup {[_time |-> T0]}

ProcessRecords ==
    {[_time |-> T0, EventCode |-> PInt(4688), New_Process_Name |-> n] :
        n \in {CmdPath, PowerShellEnc, Notepad, PInt(5)}}
    \cup {[_time |-> T0, EventCode |-> PInt(e), New_Process_Name |-> CmdPath] :
              e \in {9999, 4624, 4625}}

LogonRecords ==
    {[_time |-> T0, EventCode |-> PInt(4624), Logon_Type |-> l] :
        l \in {PStr(<<"3">>), PStr(<<"1", "0">>), PStr(<<"2">>), PInt(3)}}
    \cup {[_time |-> T0, EventCode |-> PInt(e), Logon_Type |-> PStr(<<"3">>)] :
              e \in {9999, 4688, 4625}}

UserRecords ==
    {[_time |-> T0, EventCode |-> PInt(4625), ComputerName |-> WinDc01, user |-> Admin],
     [_time |-> T0, EventCode |-> PInt(4625), Account_Name |-> Bob],
     [_time |-> T0, EventCode |-> PInt(4624), user |-> Admin, Account_Name |-> Bob],
     [_time |-> T0, user |-> Admin]}

Records == CodeRecords \cup ProcessRecords \cup LogonRecords \cup UserRecords

\* the records of the batches that are analysed a second time, reordered
PermRecords ==
    {[_time |-> T0, EventCode |-> PInt(4625)],
     [_time |-> T0, EventCode |-> PInt(4688), New_Process_Name |-> CmdPath],
     [_time |-> T0, EventCode |-> PInt(4624), Logon_Type |-> PStr(<<"3">>)],
     [_time |-> T0, EventCode |-> PStr(<<"a", "b", "c">>)],
     [_time |-> T0, EventCode |-> PInt(9999), user |-> Admin],
     [_time |-> T0, EventCode |-> PInt(4625), Account_Name |-> Bob]}

\* the non-empty batches of at most MaxBatch records
Batches(recs) == UNION {[1..n -> recs] : n \in 1..MaxBatch}

-----------------------------------------------------------------------------
(* The program *)

\* main() has loaded a batch and calls analyze_suspicious_windows_events(df)
InitWith(recs) ==
    /\ batch \in Batches(recs)
    /\ df = DataFrame(batch)
    /\ idx = 1
    /\ pc = "loop"
    /\ event_id = None
    /\ suspicious_score = 0
    /\ reasons = <<>>
    /\ suspicious_events = <<>>
    /\ calls = 1
    /\ first_events = <<>>

Init == InitWith(Records)

InitPerm == InitWith(PermRecords)

\* the head of the loop body without the reset of suspicious_score and reasons
NextRowKeepsScore ==
    /\ pc = "loop"
    /\ idx <= Len(df)
    /\ LET raw == RowGet(df[idx], "EventCode", None)
           r == ToInt(raw)
       IN  IF ~Truthy(raw) \/ (~r.ok /\ Caught(r.exc))
           THEN /\ event_id' = raw
                /\ idx' = idx + 1
                /\ UNCHANGED <<pc, suspicious_score, reasons>>
           ELSE IF ~r.ok
           THEN /\ event_id' = raw
                /\ pc' = "raised"
                /\ UNCHANGED <<idx, suspicious_score, reasons>>
           ELSE /\ event_id' = PInt(r.v)
                /\ pc' = "tier"
                /\ UNCHANGED <<idx, suspicious_score, reasons>>
    /\ UNCHANGED <<batch, df, suspicious_events, calls, first_events>>

\* the head of the loop body: read EventCode, skip the row or convert the id
\* ("continue" on a falsy value or a caught exception; pc = "raised" stands for
\* an exception of int() leaving the function)
NextRow ==
    /\ pc = "loop"
    /\ idx <= Len(df)
    /\ LET raw == RowGet(df[idx], "EventCode", None)
           r == ToInt(raw)
       IN  IF ~Truthy(raw) \/ (~r.ok /\ Caught(r.exc))
           THEN /\ event_id' = raw
                /\ idx' = idx + 1
                /\ UNCHANGED <<pc, suspicious_score, reasons>>
           ELSE IF ~r.ok
           THEN /\ event_id' = raw
                /\ pc' = "raised"
                /\ UNCHANGED <<idx, suspicious_score, reasons>>
           ELSE /\ event_id' = PInt(r.v)
                /\ suspicious_score' = 0
                /\ reasons' = <<>>
                /\ pc' = "tier"
                /\ UNCHANGED idx
    /\ UNCHANGED <<batch, df, suspicious_events, calls, first_events>>

\* the base tier of the id
BaseTier ==
    /\ pc = "tier"
    /\ suspicious_score' = suspicious_score + TierScore(event_id.v)
    /\ reasons' = reasons \o TierReasons(event_id.v)
    /\ pc' = "heuristic"
    /\ UNCHANGED <<batch, df, idx, event_id, suspicious_events, calls, first_events>>

\* the field heuristics of process creation and logon
Heuristic ==
    /\ pc = "heuristic"
    /\ suspicious_score' = suspicious_score + Heuristics(df[idx], event_id.v).score
    /\ reasons' = reasons \o Heuristics(df[idx], event_id.v).reasons
    /\ pc' = "emit"
    /\ UNCHANGED <<batch, df, idx, event_id, suspicious_events, calls, first_events>>

\* the emission test with >= in place of >
EmitAlways ==
    /\ pc = "emit"
    /\ suspicious_events' =
          IF suspicious_score >= 0
          THEN Append(suspicious_events,
                      Result(df[idx], event_id.v, suspicious_score, reasons))
          ELSE suspicious_events
    /\ idx' = idx + 1
    /\ pc' = "loop"
    /\ UNCHANGED <<batch, df, event_id, suspicious_score, reasons, calls, first_events>>

\* append the result when the score is positive, then go to the next row
Emit ==
    /\ pc = "emit"
    /\ suspicious_events' =
          IF suspicious_score > 0
          THEN Append(suspicious_events,
                      Result(df[idx], event_id.v, suspicious_score, reasons))
          ELSE suspicious_events
    /\ idx' = idx + 1
    /\ pc' = "loop"
    /\ UNCHANGED <<batch, df, event_id, suspicious_score, reasons, calls, first_events>>

\* the loop is exhausted: return pd.DataFrame(suspicious_events)
Return ==
    /\ pc = "loop"
    /\ idx > Len(df)
    /\ pc' = "done"
    /\ UNCHANGED <<batch, df, idx, event_id, suspicious_score, reasons,
                   suspicious_events, calls, first_events>>

\* the same records in another order
Permuted(records, p) == [i \in 1..Len(records) |-> records[p[i]]]

\* the same records are loaded in another order and analysed again
Rerun ==
    /\ pc = "done"
    /\ calls = 1
    /\ \E p \in Permutations(1..Len(batch)) : df' = DataFrame(Permuted(batch, p))
    /\ first_events' = suspicious_events
    /\ suspicious_events' = <<>>
    /\ calls' = 2
    /\ idx' = 1
    /\ pc' = "loop"
    /\ event_id' = None
    /\ suspicious_score' = 0
    /\ reasons' = <<>>
    /\ UNCHANGED batch

Next == NextRow \/ BaseTier \/ Heuristic \/ Emit \/ Return

Spec == Init /\ [][Next]_vars

NextPerm == Next \/ Rerun

SpecPerm == InitPerm /\ [][NextPerm]_vars

-----------------------------------------------------------------------------
(* What the specification expects, in its own terms *)

HighIds == {4625, 4648, 4720, 4726, 1102, 4740, 4672}

MediumIds == {4688, 4703, 4656, 4768, 4769, 4732, 4735}

LowIds == {4624, 4689, 5140, 5156, 7036}

TierIds == HighIds \cup MediumIds \cup LowIds

\* the results emitted so far
Results == {suspicious_events[i] : i \in 1..Len(suspicious_events)}

\* the row the loop body is working on
Row == df[idx]

\* the process names of the loaded records that contain a listed binary name
ListedProcessNames == {CmdPath, PowerShellEnc}

NamesListedProcess(row) ==
    RowGet(row, "New_Process_Name", None) \in ListedProcessNames

HasRemoteLogonType(row) ==
    RowGet(row, "Logon_Type", None) \in {PStr(<<"3">>), PStr(<<"1", "0">>)}

ExpectedBase(id) ==
    IF id \in HighIds THEN 3 ELSE IF id \in MediumIds THEN 2
    ELSE IF id \in LowIds THEN 1 ELSE 0

ExpectedScore(row, id) ==
    ExpectedBase(id)
    + (IF id = 4688 /\ NamesListedProcess(row) THEN 2 ELSE 0)
    + (IF id = 4624 /\ HasRemoteLogonType(row) THEN 1 ELSE 0)

\* the event id of the row is absent or does not convert to an integer
Malformed(row) ==
    LET raw == RowGet(row, "EventCode", None)
    IN  raw \in {None, NaN} \/ ~ToInt(raw).ok

-----------------------------------------------------------------------------
(* C1: a record whose integer event id is in a tier gets exactly one base  *)
(* tier: High ids score 3 with first reason "High-risk event: {name}",     *)
(* Medium ids 2 with "Medium-risk event: {name}", Low ids 1 with           *)
(* "Info event: {name}", {name} the catalog name; a 4625 record yields     *)
(* score 3 with the single reason "High-risk event: Failed Logon".         *)
C1_BaseTier ==
    /\ pc \in {"heuristic", "emit"} =>
          LET id == event_id.v
          IN  /\ id \in HighIds =>
                    reasons # <<>> /\ reasons[1] = "High-risk event: " \o event_descriptions[id]
              /\ id \in MediumIds =>
                    reasons # <<>> /\ reasons[1] = "Medium-risk event: " \o event_descriptions[id]
              /\ id \in LowIds =>
                    reasons # <<>> /\ reasons[1] = "Info event: " \o event_descriptions[id]
              /\ (pc = "heuristic" /\ id \in TierIds) =>
                    suspicious_score = ExpectedBase(id) /\ Len(reasons) = 1
    /\ \A e \in Results :
          /\ e.event_id = 4625 =>
                e.suspicious_score = 3 /\ e.reasons = "High-risk event: Failed Logon"
          /\ e.event_id = 4703 =>
                e.suspicious_score = 2 /\ e.reasons = "Medium-risk event: User Right Adjusted"
          /\ e.event_id = 7036 =>
                e.suspicious_score = 1 /\ e.reasons = "Info event: Service Started/Stopped"

C1_Witness ==
    /\ \E e \in Results :
          e.event_id = 4625 /\ e.reasons = "High-risk event: Failed Logon"
    /\ pc = "heuristic"
    /\ event_id.v \in MediumIds

(* C2: a result carries the raw record if and only if its score is >= 3;   *)
(* results of score 1 or 2 carry None, and a result of score >= 3 carries  *)
(* the full input record.                                                  *)
C2_RawRetention ==
    \A e \in Results :
        /\ (e.raw_data # None) <=> (e.suspicious_score >= 3)
        /\ e.suspicious_score \in {1, 2} => e.raw_data = None
        /\ e.suspicious_score >= 3 =>
              \E i \in 1..Len(batch) :
                  /\ e.raw_data = DataFrame(batch)[i]
                  /\ \A c \in DOMAIN batch[i] : e.raw_data[c] = batch[i][c]

C2_Witness ==
    /\ \E e \in Results : e.suspicious_score >= 3 /\ e.raw_data # None
    /\ \E e \in Results : e.suspicious_score \in {1, 2} /\ e.raw_data = None

(* C3: a record whose event id is absent or not convertible to an integer  *)
(* produces no result and raises no error: it is skipped, the loop goes on *)
(* with the next record, and that record is classified as it would be      *)
(* otherwise.                                                              *)
C3_SkipMalformed ==
    /\ [](pc # "raised")
    /\ [][(pc = "loop" /\ idx <= Len(df) /\ Malformed(Row)) =>
              /\ suspicious_events' = suspicious_events
              /\ idx' = idx + 1
              /\ pc' = "loop"
              /\ suspicious_score' = suspicious_score
              /\ reasons' = reasons]_vars
    /\ [][(pc = "emit" /\ idx > 1 /\ Malformed(df[idx - 1])) =>
              /\ suspicious_score = ExpectedScore(Row, event_id.v)
              /\ Len(suspicious_events') = Len(suspicious_events)
                    + (IF ExpectedScore(Row, event_id.v) > 0 THEN 1 ELSE 0)]_vars

C3_Witness ==
    /\ pc = "loop"
    /\ idx > 2
    /\ Malformed(df[idx - 2])
    /\ ~Malformed(df[idx - 1])
    /\ Len(suspicious_events) = 1

(* C4: a 4688 record whose process name contains, case-insensitively, one  *)
(* of powershell, cmd, wscript, cscript, mshta, rundll32 gets +2 and the   *)
(* second reason "Suspicious process: {processName}": score 4, two         *)
(* reasons, base reason first; with the name absent, not a string or       *)
(* containing none of them it gets score 2 and only the Medium-risk        *)
(* reason.                                                                 *)
C4_SuspiciousProcess ==
    /\ (pc = "emit" /\ event_id.v = 4688) =>
          IF NamesListedProcess(Row)
          THEN /\ suspicious_score = 4
               /\ reasons = <<"Medium-risk event: Process Creation",
                              "Suspicious process: " \o Text(Row["New_Process_Name"].v)>>
          ELSE /\ suspicious_score = 2
               /\ reasons = <<"Medium-risk event: Process Creation">>
    /\ \A e \in Results :
          e.event_id = 4688 =>
              \/ /\ e.suspicious_score = 4
                 /\ e.reasons \in
                       {"Medium-risk event: Process Creation; Suspicious process: C:\\Windows\\System32\\cmd.exe",
                        "Medium-risk event: Process Creation; Suspicious process: PowerShell.EXE -enc"}
              \/ /\ e.suspicious_score = 2
                 /\ e.reasons = "Medium-risk event: Process Creation"

C4_Witness ==
    /\ \E e \in Results :
          /\ e.event_id = 4688
          /\ e.suspicious_score = 4
          /\ e.reasons = "Medium-risk event: Process Creation; Suspicious process: PowerShell.EXE -enc"
    /\ \E e \in Results : e.event_id = 4688 /\ e.suspicious_score = 2

(* C5: a 4624 record whose Logon_Type is "3" or "10" gets +1 and the       *)
(* second reason "Remote logon (Type {logonType})": score 2, two reasons,  *)
(* base reason first; with any other or absent logon type it gets score 1  *)
(* and only the Info reason.                                               *)
C5_RemoteLogon ==
    /\ (pc = "emit" /\ event_id.v = 4624) =>
          IF HasRemoteLogonType(Row)
          THEN /\ suspicious_score = 2
               /\ reasons = <<"Info event: Successful Logon",
                              "Remote logon (Type " \o Text(Row["Logon_Type"].v) \o ")">>
          ELSE /\ suspicious_score = 1
               /\ reasons = <<"Info event: Successful Logon">>
    /\ \A e \in Results :
          e.event_id = 4624 =>
              \/ /\ e.suspicious_score = 2
                 /\ e.reasons \in
                       {"Info event: Successful Logon; Remote logon (Type 3)",
                        "Info event: Successful Logon; Remote logon (Type 10)"}
              \/ /\ e.suspicious_score = 1
                 /\ e.reasons = "Info event: Successful Logon"

C5_Witness ==
    /\ \E e \in Results :
          /\ e.event_id = 4624
          /\ e.reasons = "Info event: Successful Logon; Remote logon (Type 10)"
    /\ \E e \in Results : e.event_id = 4624 /\ e.suspicious_score = 1

\* the catalog name of an id: the literal name if known, else "Event {id}"
CatalogName(id) ==
    IF id \in DOMAIN event_descriptions
    THEN event_descriptions[id] ELSE "Event " \o IntText(id)

(* C6: a record yields a result if and only if its computed score is > 0,  *)
(* and at most one; every result has a score >= 1 and the catalog name of  *)
(* its id as event name; a record whose id is in no tier and matches no    *)
(* heuristic (EventCode 9999) never appears in the output.                 *)
C6_EmitIffPositive ==
    /\ [](\A e \in Results :
             /\ e.suspicious_score \in Nat
             /\ e.suspicious_score >= 1
             /\ e.event_name = CatalogName(e.event_id)
             /\ e.event_id # 9999)
    /\ [](Len(suspicious_events) <= idx - 1)
    /\ [][pc = "emit" =>
              IF suspicious_score > 0
              THEN /\ Len(suspicious_events') = Len(suspicious_events) + 1
                   /\ SubSeq(suspicious_events', 1, Len(suspicious_events)) = suspicious_events
                   /\ suspicious_events'[Len(suspicious_events')].event_id = event_id.v
                   /\ suspicious_events'[Len(suspicious_events')].suspicious_score
                         = suspicious_score
              ELSE suspicious_events' = suspicious_events]_vars
    /\ [][(pc \in {"loop", "tier", "heuristic"}) =>
              (suspicious_events' = suspicious_events)]_vars

C6_Witness ==
    /\ pc = "loop"
    /\ idx > 2
    /\ RowGet(df[idx - 1], "EventCode", None) = PInt(9999)
    /\ NamesListedProcess(df[idx - 1])
    /\ Len(suspicious_events) = 1
    /\ suspicious_events[1].event_name = "Failed Logon"

(* C7: the rule tables are well formed: the three tier lists are pairwise  *)
(* disjoint, and every id of a tier list has an entry in the event         *)
(* description table.                                                      *)
C7_TablesWellFormed ==
    /\ HighRisk \cap MediumRisk = {}
    /\ HighRisk \cap LowRisk = {}
    /\ MediumRisk \cap LowRisk = {}
    /\ (HighRisk \cup MediumRisk \cup LowRisk) \subseteq DOMAIN event_descriptions
    /\ pc \in {"heuristic", "emit"} =>
          /\ Cardinality({T \in {HighRisk, MediumRisk, LowRisk} : event_id.v \in T}) <= 1
          /\ TierOf(event_id.v) # "None" => event_id.v \in DOMAIN event_descriptions

C7_Witness ==
    /\ pc = "heuristic"
    /\ TierOf(event_id.v) = "Low"
    /\ \E e \in Results : TierOf(e.event_id) = "High"

(* C8: the user field of a result is the record's user value when the      *)
(* record has one, and its Account_Name value when it has none, whatever   *)
(* fields the other records of the batch carry.                            *)
C8_UserFallback ==
    [][(pc = "emit" /\ calls = 1 /\ suspicious_score > 0) =>
          LET rec == batch[idx]
              e == suspicious_events'[Len(suspicious_events')]
          IN  /\ "user" \in DOMAIN rec => e.user = rec["user"]
              /\ ("user" \notin DOMAIN rec /\ "Account_Name" \in DOMAIN rec) =>
                    e.user = rec["Account_Name"]]_vars

\* the multiset of the elements of a sequence
BagOf(seq) ==
    [x \in {seq[i] : i \in 1..Len(seq)} |->
        Cardinality({i \in 1..Len(seq) : seq[i] = x})]

(* C9: order independence: analysing the same records in any other order   *)
(* yields the same multiset of results (scores, reasons, names and raw     *)
(* record retention).                                                      *)
C9_OrderIndependent ==
    (calls = 2 /\ pc = "done") => BagOf(suspicious_events) = BagOf(first_events)

C9_Witness ==
    /\ calls = 2
    /\ pc = "done"
    /\ df # DataFrame(batch)
    /\ Len(suspicious_events) >= 2
    /\ suspicious_events # first_events

(* C10: a field heuristic never fires without a base tier: a result is     *)
(* emitted exactly when the integer event id is in one of the three tier   *)
(* lists; every result has a score in {1, 2, 3, 4} and one or two reasons, *)
(* the tier reason first, and none of the fallback texts                   *)
(* "Generic suspicious", "Unknown ({id})", "Event {id}" is used.           *)
C10_TierDecidesEmission ==
    /\ [](pc = "emit" =>
             /\ (suspicious_score > 0) <=> (event_id.v \in TierIds)
             /\ suspicious_score > 0 =>
                   /\ Len(reasons) \in {1, 2}
                   /\ reasons[1] \in
                         {"High-risk event: " \o event_descriptions[event_id.v],
                          "Medium-risk event: " \o event_descriptions[event_id.v],
                          "Info event: " \o event_descriptions[event_id.v]})
    /\ [](\A e \in Results :
             /\ e.suspicious_score \in {1, 2, 3, 4}
             /\ e.event_id \in TierIds
             /\ e.reasons # "Generic suspicious"
             /\ e.event_name # "Event " \o IntText(e.event_id)
             /\ e.event_name = event_descriptions[e.event_id])
    /\ [][pc = "emit" =>
              ((suspicious_events' # suspicious_events) <=> (event_id.v \in TierIds))]_vars

C10_Witness ==
    /\ pc = "loop"
    /\ idx > Len(df)
    /\ Len(suspicious_events) = 1
    /\ suspicious_events[1].event_id = 4625
    /\ suspicious_events[1].suspicious_score = 3
    /\ HasRemoteLogonType(suspicious_events[1].raw_data)
    /\ \E i \in 1..Len(df) :
          /\ RowGet(df[i], "EventCode", None) = PInt(9999)
          /\ NamesListedProcess(df[i])

====
